---- MODULE Spec2Model ----
(***************************************************************************)
(* Pizza point-of-sale backend (src/main.py): session codec, role policy   *)
(* table, auth endpoints and order endpoints, together with the external   *)
(* store the handlers forward to.                                          *)
(*                                                                         *)
(* Time is counted in ticks, TicksPerSec ticks to the second, so that the  *)
(* truncation int(time.time()) of create_jwt is a real conversion.         *)
(***************************************************************************)
EXTENDS Integers, Sequences, FiniteSets, TLC

VARIABLES
    now,        \* the clock, in ticks
    cookie,     \* each client's "token" cookie
    issued,     \* history: the tick at which the login that set the cookie ran
    orders,     \* the store's orders table
    loggedOut,  \* history: the token the latest logout cleared from a cookie jar
    last        \* the request handled last and what it came to

vars == <<now, cookie, issued, orders, loggedOut, last>>

(* ------------------------------ bounds -------------------------------- *)

\* clock resolution of the model
TicksPerSec == 2
\* value of the JWT_EXP_MIN environment setting (src/main.py:31), kept small
JWT_EXP_MIN == 1
\* rows the store's orders table may hold
MaxOrders == 1
\* how many steps the coarse clock takes
MaxSteps == 2

(* ---------------------------- configuration --------------------------- *)

JWT_SECRET == "change_me_now"
OtherSecret == "another_secret"

\* seconds a session lives: JWT_EXP_MIN * 60 (create_jwt, login's max_age)
TTL == JWT_EXP_MIN * 60

(* ------------------------------ values -------------------------------- *)

\* JSON null / Python None
NullV == "<null>"

Clients == {"c1", "c2"}
\* the client that drives the order endpoints and the codec
OneClient == {"c1"}

Perms(create, edit, view, pay, reports, cash) ==
    [canCreateOrder |-> create, canEditOrder |-> edit, canViewOrders |-> view,
     canPayOrder |-> pay, canViewReports |-> reports, canManageCash |-> cash]

ROLE_PERMISSIONS ==
    [admin   |-> Perms(TRUE, TRUE, TRUE, TRUE, TRUE, TRUE),
     manager |-> Perms(TRUE, TRUE, TRUE, TRUE, TRUE, TRUE),
     staff   |-> Perms(TRUE, FALSE, FALSE, FALSE, FALSE, FALSE),
     kitchen |-> Perms(FALSE, FALSE, TRUE, FALSE, FALSE, FALSE)]

\* dict.get(key, default) on a dict whose keys are strings
DictGet(d, key, default) == IF key \in DOMAIN d THEN d[key] ELSE default

\* row.get(key, default) on a JSON row of the store: an absent key yields the
\* default, a null value yields None
RowGet(row, key, default) == IF key \in DOMAIN row THEN row[key] ELSE default

\* str(v) as an f-string formats it
Str(v) == IF v = NullV THEN "None" ELSE v

(* the staff accounts the store's verify_staff_login answers for *)
StaffRows ==
    { [user_id |-> 1, username |-> "ann", full_name |-> "Ann A", store_code |-> "S1",
       role |-> "admin"],
      [user_id |-> 2, username |-> "bob", full_name |-> NullV, store_code |-> "S1",
       role |-> "staff"],
      [user_id |-> 3, username |-> "kim", full_name |-> "Kim K", store_code |-> "S2",
       role |-> "kitchen"],
      [user_id |-> 4, username |-> "max", full_name |-> "Max M", store_code |-> NullV,
       role |-> "manager"],
      [user_id |-> 5, username |-> "dan", full_name |-> "Dan D", store_code |-> "S2",
       role |-> "driver"],
      [user_id |-> 6, username |-> "nil", full_name |-> "Nil N", store_code |-> "S1",
       role |-> NullV],
      [user_id |-> 7, username |-> "mis", full_name |-> "Mis M", store_code |-> "S2"] }

\* credentials a client may submit: every account with its password, a wrong
\* password, an unknown user
Credentials ==
    { [username |-> r.username, password |-> "pw"] : r \in StaffRows }
    \cup { [username |-> "ann", password |-> "wrong"],
           [username |-> "eve", password |-> "pw"] }
WithNames(N) == { k \in Credentials : k.username \in N /\ k.password = "pw" }

NoPerms == Perms(FALSE, FALSE, FALSE, FALSE, FALSE, FALSE)
NoClaims ==
    [user_id |-> 0, username |-> NullV, full_name |-> NullV, store_code |-> NullV,
     role |-> NullV, perms |-> NoPerms]

\* the cookie jar of a client holds no "token" cookie
NoCookie == [kind |-> "absent", claims |-> NoClaims, exp |-> 0, key |-> "-"]
\* a "token" cookie whose value is the empty string
EmptyCookie == [kind |-> "empty", claims |-> NoClaims, exp |-> 0, key |-> "-"]
\* a value that is no JWT at all
Malformed == [kind |-> "malformed", claims |-> NoClaims, exp |-> 0, key |-> "-"]

(* --------------------------- session codec ---------------------------- *)

\* int(time.time()) at tick t
IntTime(t) == t \div TicksPerSec

\* create_jwt: the payload plus exp = int(time.time()) + JWT_EXP_MIN * 60, signed
\* with JWT_SECRET
create_jwt(payload, t) ==
    [kind |-> "jwt", claims |-> payload, exp |-> IntTime(t) + JWT_EXP_MIN * 60,
     key |-> JWT_SECRET]

AuthOk(claims) == [ok |-> TRUE, http |-> 200, detail |-> "", claims |-> claims]
AuthFail(detail) == [ok |-> FALSE, http |-> 401, detail |-> detail, claims |-> NoClaims]

\* jwt.decode's expiry check, as a set of the verdicts the installed PyJWT can
\* give: before exp it never reports expiry, a whole second or more past exp it
\* always does, and within the second that starts at exp the verdict depends on
\* the library's version (integer or float clock, < or <=).
ExpiredVerdicts(exp, t) ==
    IF t < exp * TicksPerSec THEN {FALSE}
    ELSE IF t >= (exp + 1) * TicksPerSec THEN {TRUE}
    ELSE {TRUE, FALSE}

\* decode_jwt as it would be, were exp looked at before the signature
decode_jwt_ExpiryFirst(token, t) ==
    IF token.kind # "jwt"
    THEN {AuthFail("Invalid token")}
    ELSE { IF e THEN AuthFail("Token expired")
           ELSE IF token.key # JWT_SECRET THEN AuthFail("Invalid token")
           ELSE AuthOk(token.claims)
           : e \in ExpiredVerdicts(token.exp, t) }

\* decode_jwt: the signature is verified before the claims are looked at
decode_jwt(token, t) ==
    IF token.kind # "jwt" \/ token.key # JWT_SECRET
    THEN {AuthFail("Invalid token")}
    ELSE { IF e THEN AuthFail("Token expired") ELSE AuthOk(token.claims)
           : e \in ExpiredVerdicts(token.exp, t) }

\* get_current_user as it would be with a server-side list of logged-out tokens
get_current_user_Revoking(token, t) ==
    IF token.kind \in {"absent", "empty"}
    THEN {AuthFail("Not authenticated")}
    ELSE IF token = loggedOut THEN {AuthFail("Invalid token")}
    ELSE decode_jwt(token, t)

\* get_current_user: `if not token` covers the absent and the empty cookie
get_current_user(token, t) ==
    IF token.kind \in {"absent", "empty"}
    THEN {AuthFail("Not authenticated")}
    ELSE decode_jwt(token, t)

(* ------------------------- the external store ------------------------- *)

FailStatuses == {503}
\* what the store answers to a call of each kind: its success status or a failure
RpcStatuses == {200} \cup FailStatuses
SelectStatuses == {200} \cup FailStatuses
InsertStatuses == {201} \cup FailStatuses
PatchStatuses == {200, 204} \cup FailStatuses

\* verify_staff_login(p_username, p_password): the matching row, or no row
VerifyStaffLogin(username, password) ==
    IF password = "pw" /\ \E r \in StaffRows : r.username = username
    THEN << CHOOSE r \in StaffRows : r.username = username >>
    ELSE << >>

Rows(tbl) == { tbl[i] : i \in DOMAIN tbl }

\* the newest row of a non-empty set (created_at descending, then id)
Newest(S) ==
    CHOOSE o \in S : \A p \in S :
        o.created_at > p.created_at \/ (o.created_at = p.created_at /\ o.id <= p.id)

RECURSIVE ByCreatedDesc(_)
ByCreatedDesc(S) ==
    IF S = {} THEN << >>
    ELSE LET o == Newest(S) IN << o >> \o ByCreatedDesc(S \ {o})

\* GET orders?store_code=eq.<code>&or=(status.eq.pending,status.eq.paid)
\*     &order=created_at.desc : a null column matches no eq filter
StoreSelect(tbl, code) ==
    ByCreatedDesc({ o \in Rows(tbl) :
        /\ o.store_code # NullV
        /\ o.store_code = code
        /\ o.status \in {"pending", "paid"} })

\* POST orders : the store assigns the id; a column the record does not name
\* (payment_method) takes its default, null
StoreInsert(tbl, rec) ==
    Append(tbl, [f \in DOMAIN rec \cup {"id", "payment_method"} |->
                    IF f = "id" THEN Len(tbl) + 1
                    ELSE IF f \in DOMAIN rec THEN rec[f] ELSE NullV])

\* the columns of `body` written over a row
Merge(row, body) ==
    [f \in DOMAIN row |-> IF f \in DOMAIN body THEN body[f] ELSE row[f]]

\* PATCH orders?id=eq.<id> : every row with that id takes the body's columns
StorePatch(tbl, id, body) ==
    [i \in DOMAIN tbl |-> IF tbl[i].id = id THEN Merge(tbl[i], body) ELSE tbl[i]]

(* ------------------------------ requests ------------------------------ *)

NoItems == {}
OneItem == { [item |-> "margherita", qty |-> 1] }

\* bodies of POST /api/orders
NewOrder(items, total) ==
    [order_type |-> "dine_in", table_number |-> 4, note |-> NullV, items |-> items,
     total |-> total]
OrderPayloads == { NewOrder(OneItem, 12), NewOrder(NoItems, 12), NewOrder(OneItem, 0) }

\* bodies of PATCH /api/orders/{id}: any mapping of columns
UpdatePayloads ==
    { [status |-> "cancelled"],
      [status |-> "pending", store_code |-> "S1", user_id |-> 1] }
\* update bodies that move a row between stores and statuses
ScopePayloads ==
    { [status |-> "cancelled"], [store_code |-> "None"], [store_code |-> "S1"] }

PayMethods == {"cash", "card"}

OrderIds == 1 .. (MaxOrders + 1)

NoUserOut ==
    [id |-> 0, username |-> NullV, full_name |-> NullV, store_code |-> NullV,
     role |-> NullV, permissions |-> NoPerms]
NoSetCookie == [act |-> "none", value |-> NoCookie, max_age |-> 0]
NoReq == [order_id |-> 0, method |-> NullV, body |-> NullV]

\* what a request came to: the cookie it carried (for the handlers that resolve a
\* session), the claims the codec resolved, the store calls it issued, and the
\* response
Outcome(op, c, tok, req, claims, http, detail, calls, rows, ok) ==
    [op |-> op, cli |-> c, tok |-> tok, req |-> req, user |-> claims,
     http |-> http, detail |-> detail, calls |-> calls, rows |-> rows, ok |-> ok,
     out |-> NoUserOut, setCookie |-> NoSetCookie]

Idle == Outcome("none", "-", NoCookie, NoReq, NoClaims, 0, "", << >>, << >>, FALSE)

StoreCall(verb, path, filter, body, status) ==
    [verb |-> verb, path |-> path, filter |-> filter, body |-> body, status |-> status]

(* ------------------------------ handlers ------------------------------ *)

\* ROLE_PERMISSIONS.get(user.get("role", "staff"), ROLE_PERMISSIONS["staff"])
permissions_for(user) ==
    DictGet(ROLE_PERMISSIONS, RowGet(user, "role", "staff"), ROLE_PERMISSIONS["staff"])

\* the claims login hands to create_jwt
SessionClaims(user) ==
    [user_id |-> RowGet(user, "user_id", NullV),
     username |-> RowGet(user, "username", NullV),
     full_name |-> RowGet(user, "full_name", NullV),
     store_code |-> RowGet(user, "store_code", NullV),
     role |-> RowGet(user, "role", NullV),
     perms |-> permissions_for(user)]

\* the dict login returns
LoginBody(user) ==
    [id |-> RowGet(user, "user_id", NullV),
     username |-> RowGet(user, "username", NullV),
     full_name |-> RowGet(user, "full_name", NullV),
     store_code |-> RowGet(user, "store_code", NullV),
     role |-> RowGet(user, "role", NullV),
     permissions |-> permissions_for(user)]

\* response_model=User: username and role are required strings, full_name and
\* store_code are Optional (id, a required int, is an int in every row)
UserModelAccepts(body) == body.username # NullV /\ body.role # NullV

\* POST /api/login
login(c, username, password) ==
    \E st \in RpcStatuses :
        LET creds == [p_username |-> username, p_password |-> password]
            call == StoreCall("POST", "rpc/verify_staff_login", NullV, creds, st)
            data == IF st = 200 THEN VerifyStaffLogin(username, password) ELSE << >>
            refused == Outcome("login", c, NoCookie, NoReq, NoClaims,
                               401, "Invalid credentials", << call >>, << >>, FALSE)
        IN  IF st # 200 \/ data = << >>
            THEN /\ last' = refused
                 /\ UNCHANGED <<now, cookie, issued, orders, loggedOut>>
            ELSE LET user == data[1]
                     token == create_jwt(SessionClaims(user), now)
                     body == LoginBody(user)
                 IN  IF UserModelAccepts(body)
                     THEN /\ cookie' = [cookie EXCEPT ![c] = token]
                          /\ last' = [Outcome("login", c, NoCookie, NoReq, NoClaims,
                                              200, "", << call >>, << >>, FALSE)
                                        EXCEPT !.out = body,
                                               !.setCookie = [act |-> "set", value |-> token,
                                                              max_age |-> JWT_EXP_MIN * 60]]
                          /\ issued' = [issued EXCEPT ![c] = now]
                          /\ UNCHANGED <<now, orders, loggedOut>>
                     ELSE \* the response fails validation: 500, no cookie is sent
                          /\ last' = Outcome("login", c, NoCookie, NoReq, NoClaims,
                                             500, "Internal Server Error", << call >>,
                                             << >>, FALSE)
                          /\ UNCHANGED <<now, cookie, issued, orders, loggedOut>>

\* POST /api/logout: no session is resolved, nothing is remembered server-side
logout(c) ==
    /\ cookie' = [cookie EXCEPT ![c] = NoCookie]
    /\ issued' = [issued EXCEPT ![c] = 0]
    /\ loggedOut' = IF cookie[c].kind = "jwt" THEN cookie[c] ELSE loggedOut
    /\ last' = [Outcome("logout", c, NoCookie, NoReq, NoClaims, 200, "", << >>, << >>, TRUE)
                  EXCEPT !.setCookie = [act |-> "delete", value |-> NoCookie, max_age |-> 0]]
    /\ UNCHANGED <<now, orders>>

\* a request that Depends(get_current_user) rejected
Rejected(op, c, req, a) ==
    /\ last' = Outcome(op, c, cookie[c], req, NoClaims, a.http, a.detail, << >>, << >>, FALSE)
    /\ UNCHANGED <<now, cookie, issued, orders, loggedOut>>

\* r.status_code != 200 fails the list
ListOk(st) == st = 200

\* GET /api/orders: no permission flag is looked at
get_orders(c) ==
    \E a \in get_current_user(cookie[c], now) :
        IF ~a.ok THEN Rejected("list", c, NoReq, a)
        ELSE \E st \in SelectStatuses :
            LET store == DictGet(a.claims, "store_code", NullV)
                flt == [store_code |-> Str(store), status |-> {"pending", "paid"},
                        order |-> "created_at.desc"]
                call == StoreCall("GET", "orders", flt, NullV, st)
            IN  /\ last' = IF ~ListOk(st)
                           THEN Outcome("list", c, cookie[c], NoReq, a.claims, 500,
                                        "Failed to fetch orders", << call >>, << >>, FALSE)
                           ELSE Outcome("list", c, cookie[c], NoReq, a.claims, 200, "",
                                        << call >>, StoreSelect(orders, flt.store_code), FALSE)
                /\ UNCHANGED <<now, cookie, issued, orders, loggedOut>>

\* the validation as it would be with total < 0 for total <= 0
InvalidOrder_StrictTotal(payload) == payload.items = {} \/ payload.total < 0

\* not payload.items or payload.total <= 0
InvalidOrder(payload) == payload.items = {} \/ payload.total <= 0

\* r.status_code not in (200, 201) fails the create
CreateOk(st) == st \in {200, 201}

\* the record create_order sends: the payload plus the injected fields
EnrichedOrder(payload, user, t) ==
    [order_type |-> payload.order_type, table_number |-> payload.table_number,
     note |-> payload.note, items |-> payload.items, total |-> payload.total,
     user_id |-> user["user_id"], store_code |-> user["store_code"],
     status |-> "pending", created_at |-> IntTime(t)]

\* POST /api/orders: the session is resolved before the body of the handler
\* runs; no permission flag is looked at
create_order(c, payload) ==
    LET req == [NoReq EXCEPT !.body = payload] IN
    \E a \in get_current_user(cookie[c], now) :
        IF ~a.ok THEN Rejected("create", c, req, a)
        ELSE IF InvalidOrder(payload)
        THEN /\ last' = Outcome("create", c, cookie[c], req, a.claims,
                                400, "Invalid order", << >>, << >>, FALSE)
             /\ UNCHANGED <<now, cookie, issued, orders, loggedOut>>
        ELSE \E st \in InsertStatuses :
            LET order == EnrichedOrder(payload, a.claims, now)
                call == StoreCall("POST", "orders", NullV, order, st)
                stored == StoreInsert(orders, order)
            IN  /\ Len(orders) < MaxOrders
                /\ orders' = IF st \in FailStatuses THEN orders ELSE stored
                /\ last' = IF ~CreateOk(st)
                           THEN Outcome("create", c, cookie[c], req, a.claims, 500,
                                        "Failed to create order", << call >>, << >>, FALSE)
                           ELSE Outcome("create", c, cookie[c], req, a.claims, 200, "",
                                        << call >>, << stored[Len(stored)] >>, FALSE)
                /\ UNCHANGED <<now, cookie, issued, loggedOut>>

\* user.get("perms", {}).get(flag), as a truth value
HasPerm(user, flag) ==
    LET perms == DictGet(user, "perms", << >>) IN DictGet(perms, flag, FALSE)

\* update_order's check as it would be with the create flag for the edit flag
CanEditOrder_WrongFlag(user) == HasPerm(user, "canCreateOrder")

\* update_order's check: only the edit flag counts
CanEditOrder(user) == HasPerm(user, "canEditOrder")

\* pay_order's check as it would be with the create flag for the pay flag
CanPayOrder_WrongFlag(user) == HasPerm(user, "canCreateOrder")

\* pay_order's check
CanPayOrder(user) == HasPerm(user, "canPayOrder")

\* ?id=eq.{order_id}: the row is selected by its id alone
OrderFilter(order_id) == [id |-> order_id]

\* the status check of update_order as it would be if it were left out
UpdateOk_Unchecked(st) == TRUE

\* r.status_code not in (200, 204) fails the update
UpdateOk(st) == st \in {200, 204}

\* PATCH /api/orders/{order_id}
update_order(c, order_id, payload) ==
    LET req == [NoReq EXCEPT !.order_id = order_id, !.body = payload] IN
    \E a \in get_current_user(cookie[c], now) :
        IF ~a.ok THEN Rejected("update", c, req, a)
        ELSE IF ~CanEditOrder(a.claims)
        THEN /\ last' = Outcome("update", c, cookie[c], req, a.claims,
                                403, "Forbidden", << >>, << >>, FALSE)
             /\ UNCHANGED <<now, cookie, issued, orders, loggedOut>>
        ELSE \E st \in PatchStatuses :
            LET flt == OrderFilter(order_id)
                call == StoreCall("PATCH", "orders", flt, payload, st)
            IN  /\ orders' = IF st \in FailStatuses THEN orders
                             ELSE StorePatch(orders, flt.id, payload)
                /\ last' = IF ~UpdateOk(st)
                           THEN Outcome("update", c, cookie[c], req, a.claims, 500,
                                        "Failed to update order", << call >>, << >>, FALSE)
                           ELSE Outcome("update", c, cookie[c], req, a.claims, 200, "",
                                        << call >>, << >>, TRUE)
                /\ UNCHANGED <<now, cookie, issued, loggedOut>>

\* the payment body as it would be with a fixed method
PayBody_FixedMethod(method) == [status |-> "paid", payment_method |-> "cash"]

\* body = {"status": "paid", "payment_method": method}
PayBody(method) == [status |-> "paid", payment_method |-> method]

\* r.status_code not in (200, 204) fails the payment
PayOk(st) == st \in {200, 204}

\* POST /api/orders/{order_id}/pay?method=...
pay_order(c, order_id, method) ==
    LET req == [NoReq EXCEPT !.order_id = order_id, !.method = method] IN
    \E a \in get_current_user(cookie[c], now) :
        IF ~a.ok THEN Rejected("pay", c, req, a)
        ELSE IF ~CanPayOrder(a.claims)
        THEN /\ last' = Outcome("pay", c, cookie[c], req, a.claims,
                                403, "No permission", << >>, << >>, FALSE)
             /\ UNCHANGED <<now, cookie, issued, orders, loggedOut>>
        ELSE \E st \in PatchStatuses :
            LET flt == OrderFilter(order_id)
                body == PayBody(method)
                call == StoreCall("PATCH", "orders", flt, body, st)
            IN  /\ orders' = IF st \in FailStatuses THEN orders
                             ELSE StorePatch(orders, flt.id, body)
                /\ last' = IF ~PayOk(st)
                           THEN Outcome("pay", c, cookie[c], req, a.claims, 500,
                                        "Failed to update payment", << call >>, << >>, FALSE)
                           ELSE Outcome("pay", c, cookie[c], req, a.claims, 200, "",
                                        << call >>, << >>, TRUE)
                /\ UNCHANGED <<now, cookie, issued, loggedOut>>

(* ----------------------------- environment ---------------------------- *)

\* what a client can make of its own cookie jar without the signing secret: no
\* cookie, an empty value, a value that is no JWT, a JWT signed with another
\* secret whose exp is long past or far ahead
ForgedClaims == SessionClaims(CHOOSE r \in StaffRows : r.username = "ann")
Forgeries ==
    { NoCookie, EmptyCookie, Malformed } \cup
    { [kind |-> "jwt", claims |-> ForgedClaims, exp |-> e, key |-> OtherSecret] :
        e \in {0, 100 * TTL} }

Tamper(c) ==
    /\ \E v \in Forgeries : cookie' = [cookie EXCEPT ![c] = v]
    /\ issued' = [issued EXCEPT ![c] = 0]
    /\ last' = Idle
    /\ UNCHANGED <<now, orders, loggedOut>>

\* client d presents a copy of the token client c holds
Replay(c, d) ==
    /\ c # d
    /\ cookie[c].kind = "jwt"
    /\ cookie' = [cookie EXCEPT ![d] = cookie[c]]
    /\ issued' = [issued EXCEPT ![d] = issued[c]]
    /\ last' = Idle
    /\ UNCHANGED <<now, orders, loggedOut>>

\* the clock moves by one tick
Tick ==
    /\ now < (TTL + 4) * TicksPerSec
    /\ now' = now + 1
    /\ last' = Idle
    /\ UNCHANGED <<cookie, issued, orders, loggedOut>>

\* the clock moves by a second more than half a session lifetime
AdvanceStep == (TTL \div 2 + 1) * TicksPerSec
Advance ==
    /\ now + AdvanceStep <= MaxSteps * AdvanceStep
    /\ now' = now + AdvanceStep
    /\ last' = Idle
    /\ UNCHANGED <<cookie, issued, orders, loggedOut>>

(* --------------------------- specifications --------------------------- *)

Init ==
    /\ now = 0
    /\ cookie = [c \in Clients |-> NoCookie]
    /\ issued = [c \in Clients |-> 0]
    /\ orders = << >>
    /\ loggedOut = NoCookie
    /\ last = Idle

\* the order endpoints, driven by one client that logs in as an admin and a
\* staff member of store S1 and as the kitchen of store S2
Next ==
    \/ \E c \in OneClient, k \in WithNames({"ann", "bob", "kim"}) :
            login(c, k.username, k.password)
    \/ \E c \in OneClient : Tamper(c)
    \/ \E c \in OneClient : get_orders(c)
    \/ \E c \in OneClient, p \in OrderPayloads : create_order(c, p)
    \/ \E c \in OneClient, i \in OrderIds, p \in UpdatePayloads : update_order(c, i, p)
    \/ \E c \in OneClient, i \in OrderIds, m \in PayMethods : pay_order(c, i, m)

Spec == Init /\ [][Next]_vars

\* store scoping of the list: an admin of S1 and a manager without a store
NextList ==
    \/ \E c \in OneClient, k \in WithNames({"ann", "max"}) :
            login(c, k.username, k.password)
    \/ \E c \in OneClient : get_orders(c)
    \/ \E c \in OneClient : create_order(c, NewOrder(OneItem, 12))
    \/ \E c \in OneClient, i \in OrderIds, p \in ScopePayloads : update_order(c, i, p)
    \/ \E c \in OneClient, i \in OrderIds : pay_order(c, i, "cash")

SpecList == Init /\ [][NextList]_vars

\* sessions over time: two clients, accounts of a listed role, of an unlisted
\* role, of a null role and of no role, refused credentials, logout, replay,
\* and protected requests as the clock moves
AuthCredentials ==
    { k \in Credentials : k.username \in {"ann", "dan", "nil", "mis", "eve"} }
NextAuth ==
    \/ \E c \in Clients, k \in AuthCredentials : login(c, k.username, k.password)
    \/ \E c \in Clients : logout(c)
    \/ \E c, d \in Clients : Replay(c, d)
    \/ \E c \in Clients : get_orders(c)
    \/ Advance

SpecAuth == Init /\ [][NextAuth]_vars

\* order creation under every kind of session: valid, absent, empty, malformed,
\* mis-signed, expired
NextCreate ==
    \/ \E c \in OneClient, k \in WithNames({"bob", "kim"}) :
            login(c, k.username, k.password)
    \/ \E c \in OneClient : Tamper(c)
    \/ \E c \in OneClient, p \in OrderPayloads : create_order(c, p)
    \/ Advance

SpecCreate == Init /\ [][NextCreate]_vars

\* the codec under a fine clock: one client logs in within the first two
\* seconds (at every offset within a second), tampers, and sends protected
\* requests until the session has expired
NextCodec ==
    \/ \E c \in OneClient : now < 2 * TicksPerSec /\ login(c, "ann", "pw")
    \/ \E c \in OneClient : Tamper(c)
    \/ \E c \in OneClient : get_orders(c)
    \/ Tick

SpecCodec == Init /\ [][NextCodec]_vars

(* ------------------------------- claims ------------------------------- *)

\* the session a cookie resolves to is accepted whatever the library's verdict
ValidSession(tok, t) == \A a \in get_current_user(tok, t) : a.ok
\* ... is rejected whatever the library's verdict
NoSession(tok, t) == \A a \in get_current_user(tok, t) : ~a.ok

\* an order payload with no items or a total of 0 or less
EmptyOrFree(body) == body.items = {} \/ body.total <= 0

IsRequest == last.op \in {"login", "logout", "list", "create", "update", "pay"}
Failed(st) == st \notin 200 .. 299

\* the flag the Role Policy Table names for each order operation
RequiredFlag ==
    [list |-> "canViewOrders", create |-> "canCreateOrder",
     update |-> "canEditOrder", pay |-> "canPayOrder"]

\* C1: an order operation (list, create, update, pay) issues a store call only if
\* the session's permission set grants the operation's flag (canViewOrders,
\* canCreateOrder, canEditOrder, canPayOrder).
C1_StoreCallOnlyIfGranted ==
    (last.op \in DOMAIN RequiredFlag /\ last.calls # << >>)
        => last.user.perms[RequiredFlag[last.op]]

\* C2 as stated: creating an order whose items are empty or whose total is 0
\* ends in InvalidOrder (400) whatever the session, and no insert is sent.
C2_InvalidOrderWhateverSession ==
    (last.op = "create" /\ EmptyOrFree(last.req.body))
        => /\ last.http = 400
           /\ last.detail = "Invalid order"
           /\ last.calls = << >>

\* C2 as amended: creating an order whose items are empty or whose total is <= 0
\* sends no insert and leaves the store's orders as they were; with a session the
\* codec accepts the response is InvalidOrder (400), and with an absent, empty,
\* malformed, mis-signed or expired cookie it is the codec's 401, since the
\* session is resolved before the payload is looked at.
C2_InvalidOrderAfterSession ==
    [][ (last'.op = "create" /\ EmptyOrFree(last'.req.body))
          => /\ last'.calls = << >>
             /\ orders' = orders
             /\ ValidSession(last'.tok, now')
                  => last'.http = 400 /\ last'.detail = "Invalid order"
             /\ NoSession(last'.tok, now')
                  => /\ last'.http = 401
                     /\ \E a \in get_current_user(last'.tok, now') :
                            last'.detail = a.detail
             /\ last'.http \in {400, 401} ]_vars

\* C2 witnesses: an invalid order refused with 400 under a valid session
C2_Witness ==
    /\ last.op = "create"
    /\ EmptyOrFree(last.req.body)
    /\ ValidSession(last.tok, now)
    /\ last.http = 400

\* C3: a successful list by a session of store S returns only rows whose
\* store_code equals S and whose status is pending or paid.
C3_ListReturnsOwnStoreOnly ==
    (last.op = "list" /\ last.http = 200)
        => \A i \in DOMAIN last.rows :
              /\ last.rows[i].store_code = last.user.store_code
              /\ last.rows[i].status \in {"pending", "paid"}

C5_PaySendsOnePatch ==
    [][ (last'.op = "pay" /\ ValidSession(last'.tok, now'))
          => IF last'.tok.claims.perms.canPayOrder
             THEN /\ Len(last'.calls) = 1
                  /\ last'.calls[1].verb = "PATCH"
                  /\ last'.calls[1].path = "orders"
                  /\ last'.calls[1].filter = [id |-> last'.req.order_id]
                  /\ last'.calls[1].body =
                        [status |-> "paid", payment_method |-> last'.req.method]
                  /\ last'.calls[1].status \in {200, 204}
                        => /\ last'.http = 200
                           /\ last'.ok
                           /\ \A i \in DOMAIN orders :
                                 IF orders[i].id = last'.req.order_id
                                 THEN orders'[i] =
                                        [orders[i] EXCEPT
                                            !.status = "paid",
                                            !.payment_method = last'.req.method]
                                 ELSE orders'[i] = orders[i]
             ELSE /\ last'.http = 403
                  /\ last'.calls = << >>
                  /\ orders' = orders ]_vars

\* C5 witness: a payment went through and the row shows it
C5_Witness ==
    /\ last.op = "pay"
    /\ last.http = 200
    /\ last.ok
    /\ \E i \in DOMAIN orders :
          /\ orders[i].id = last.req.order_id
          /\ orders[i].status = "paid"
          /\ orders[i].payment_method = last.req.method

\* ticks since the login that set the cookie a protected request carried
Elapsed == now - issued[last.cli]

\* C6: a protected request with an absent or empty token is refused as "Not
\* authenticated"; a token minted by create_jwt with TTL T = JWT_EXP_MIN * 60
\* seconds is accepted at every time up to T - 1 seconds after its creation and
\* refused as "Token expired" at every time from T + 1 seconds on; a token signed
\* with another secret is refused as "Invalid token", never as expired, whatever
\* its exp; every refusal is a 401.
C6_CodecClassifiesTokens ==
    last.op = "list" =>
        /\ last.tok.kind \in {"absent", "empty"}
              => last.http = 401 /\ last.detail = "Not authenticated"
        /\ (last.tok.kind = "jwt" /\ last.tok.key = JWT_SECRET)
              => /\ Elapsed <= (TTL - 1) * TicksPerSec
                    => last.http # 401 /\ last.user = last.tok.claims
                 /\ Elapsed >= (TTL + 1) * TicksPerSec
                    => last.http = 401 /\ last.detail = "Token expired"
        /\ (last.tok.kind = "jwt" /\ last.tok.key # JWT_SECRET)
              => last.http = 401 /\ last.detail = "Invalid token"
        /\ last.detail \in {"Not authenticated", "Token expired", "Invalid token"}
              => last.http = 401 /\ last.calls = << >>

\* C6 witness: a session minted off the second boundary is still accepted T - 1
\* seconds after its creation
C6_Witness ==
    /\ last.op = "list"
    /\ last.tok.kind = "jwt"
    /\ last.tok.key = JWT_SECRET
    /\ issued[last.cli] % TicksPerSec # 0
    /\ Elapsed = (TTL - 1) * TicksPerSec
    /\ last.http = 200

\* the Role Policy Table entry of a role, "staff" for any role it does not list
PolicyEntry(role) ==
    IF role \in DOMAIN ROLE_PERMISSIONS THEN ROLE_PERMISSIONS[role]
    ELSE ROLE_PERMISSIONS["staff"]

\* C7: every login the store accepts succeeds; the permission set in the response
\* and the one embedded in the minted token are the Role Policy Table entry of the
\* identity's role, the "staff" entry for a role the table does not list
\* (a missing or null role included), and the "token" cookie is set.
C7_LoginPermissions ==
    (/\ last.op = "login"
     /\ last.calls[1].status = 200
     /\ VerifyStaffLogin(last.calls[1].body.p_username,
                         last.calls[1].body.p_password) # << >>)
        => LET row == VerifyStaffLogin(last.calls[1].body.p_username,
                                       last.calls[1].body.p_password)[1]
               entry == PolicyEntry(RowGet(row, "role", NullV))
           IN  /\ last.http = 200
               /\ last.out.permissions = entry
               /\ last.setCookie.act = "set"
               /\ last.setCookie.value.claims.perms = entry
               /\ cookie[last.cli] = last.setCookie.value

\* the token a logout cleared is used again
ReplayedAfterLogout ==
    /\ last.op = "list"
    /\ last.tok.kind = "jwt"
    /\ last.tok = loggedOut

\* C8: logout answers ok and clears the client's cookie whether or not it held a
\* session, so that client's next protected request is "Not authenticated";
\* nothing is invalidated server-side: the cleared token, presented by any
\* client before its exp, is still accepted, and any token is refused once a
\* second or more past its exp; a client comes to hold an acceptable token only
\* by a successful login of its own or by copying one another client holds.
C8_SessionLifecycle ==
    [][ /\ last'.op = "logout"
            => /\ last'.http = 200 /\ last'.ok
               /\ last'.setCookie.act = "delete"
               /\ last'.calls = << >>
               /\ cookie'[last'.cli] = NoCookie
        /\ (last'.op = "list" /\ last'.tok = NoCookie)
            => last'.http = 401 /\ last'.detail = "Not authenticated"
        /\ (ReplayedAfterLogout' /\ now' < last'.tok.exp * TicksPerSec)
            => last'.http # 401 /\ last'.user = last'.tok.claims
        /\ (/\ last'.op = "list"
            /\ last'.tok.kind = "jwt"
            /\ now' >= (last'.tok.exp + 1) * TicksPerSec)
            => last'.http = 401 /\ last'.detail = "Token expired"
        /\ \A c \in Clients :
              (cookie'[c] # cookie[c] /\ cookie'[c] # NoCookie)
                  => \/ /\ last'.op = "login"
                        /\ last'.cli = c
                        /\ last'.http = 200
                        /\ last'.setCookie.value = cookie'[c]
                     \/ \E d \in Clients \ {c} : cookie[d] = cookie'[c]
      ]_vars

\* C8 witness: after a logout cleared a token, another holder's request with a
\* copy of it is served
C8_Witness ==
    /\ ReplayedAfterLogout
    /\ last.http = 200
    /\ \E d \in Clients \ {last.cli} : cookie[d] = NoCookie

\* the fixed message each order endpoint answers a store failure with
GenericMessage ==
    [list |-> "Failed to fetch orders", create |-> "Failed to create order",
     update |-> "Failed to update order", pay |-> "Failed to update payment"]

\* C9 as stated: whenever the store call of a request (login, list, create,
\* update, pay) fails, the request fails with HTTP 500; a request makes one
\* store call at most.
C9_EveryStoreFailureIs500 ==
    IsRequest =>
        /\ Len(last.calls) <= 1
        /\ (last.calls # << >> /\ Failed(last.calls[1].status)) => last.http = 500

\* C9 as amended: a request makes one store call at most and none after a
\* failure; when the store call of list, create, update or pay fails, the request
\* fails with HTTP 500 and the endpoint's fixed message; when the store call of
\* login fails, the request fails with HTTP 401 "Invalid credentials" and sets no
\* cookie; no request answers 200 after its store call failed.
C9_StoreFailureSurfaced ==
    IsRequest =>
        /\ Len(last.calls) <= 1
        /\ (last.op # "logout" /\ last.http \in {200, 500}) => Len(last.calls) = 1
        /\ (last.calls # << >> /\ Failed(last.calls[1].status))
              => /\ last.http # 200
                 /\ ~last.ok
                 /\ last.rows = << >>
                 /\ last.setCookie.act = "none"
                 /\ IF last.op = "login"
                    THEN last.http = 401 /\ last.detail = "Invalid credentials"
                    ELSE last.http = 500 /\ last.detail = GenericMessage[last.op]

\* C9 witness: a failed patch of update_order came back as a 500
C9_Witness ==
    /\ last.op = "update"
    /\ last.calls # << >>
    /\ Failed(last.calls[1].status)
    /\ last.http = 500

\* C10: update_order and pay_order by a session holding the operation's flag
\* forward one patch filtered by the order id alone, and on the store's success
\* every row with that id takes the patch's columns whatever its store_code and
\* user_id are; a request of a session holding neither canEditOrder nor
\* canPayOrder leaves every existing order as it was.
C10_MutationsGatedByFlagOnly ==
    [][ /\ (/\ last'.op \in {"update", "pay"}
            /\ ValidSession(last'.tok, now')
            /\ last'.tok.claims.perms[RequiredFlag[last'.op]])
              => /\ Len(last'.calls) = 1
                 /\ last'.calls[1].verb = "PATCH"
                 /\ last'.calls[1].filter = [id |-> last'.req.order_id]
                 /\ last'.op = "update" => last'.calls[1].body = last'.req.body
                 /\ ~Failed(last'.calls[1].status)
                       => \A i \in DOMAIN orders :
                             orders[i].id = last'.req.order_id
                                => \A f \in DOMAIN last'.calls[1].body :
                                      orders'[i][f] = last'.calls[1].body[f]
        /\ (/\ last'.op \in {"list", "create", "update", "pay"}
            /\ ~last'.tok.claims.perms.canEditOrder
            /\ ~last'.tok.claims.perms.canPayOrder)
              => \A i \in DOMAIN orders :
                    i \in DOMAIN orders' /\ orders'[i] = orders[i]
      ]_vars

\* C10 witness: a session of store S1 has cancelled an order of store S2
C10_Witness ==
    /\ last.op = "update"
    /\ last.http = 200
    /\ last.tok.claims.store_code = "S1"
    /\ \E i \in DOMAIN orders :
          /\ orders[i].id = last.req.order_id
          /\ orders[i].store_code = "S2"
          /\ orders[i].status = "cancelled"

====
